---- MODULE Spec2Model ----
(***************************************************************************)
(* A model of retirement_simulation/sim.py: the vectorized Monte Carlo     *)
(* engine run_sim and the scenario loop of main that calls it.             *)
(*                                                                         *)
(* Numbers.  The code computes in floating point; the model computes in    *)
(* exact fixed point.  A balance b of the code is the integer b * Scale,   *)
(* rates and returns are counted in tenths (a return of -0.1 is -1, a      *)
(* return of -1.5 is -15), so 1 + r is (10 + r) / 10.  Scale is            *)
(* 2 * 10^MaxYears: after y years every balance is a multiple of           *)
(* 2 * 10^(MaxYears - y), so every division by 10 below, and the halving   *)
(* in the median, is exact (ExactArithmetic checks it).                    *)
(***************************************************************************)
EXTENDS Integers, Sequences, FiniteSets

\* Bounds of the model: trials per run, years per run, the initial skip
\* budget, run_sim calls per execution, return draws per run (trials times
\* years), and the population of the reduction checked on its own.
MaxTrials == 2
MaxYears == 3
MaxSkips == 2
MaxRuns == 2
MaxDraws == 6
MaxPopulation == 4

Scale == 2 * 10^MaxYears

\* ------------------------------------------------------------------ inputs

\* The yearly returns a draw may produce, in tenths: below -1, slightly
\* negative, zero, positive.
Returns == {-15, -1, 0, 1}

\* class Scenario (the display name is left out: run_sim never reads it).
Scenario(avg, vol, raise, infl) ==
    [avg_return |-> avg, vol |-> vol, raise_rate |-> raise, inflation |-> infl]

\* The scenario lists a caller such as main iterates.  A list is either one
\* zero-volatility scenario repeated (every draw is avg_return, the
\* deterministic source) or scenarios with positive volatility.
ScenarioLists ==
    {[k \in 1..MaxRuns |-> Scenario(a, 0, g, h)] :
        a \in Returns, g \in {0, 1}, h \in {0, 1}}
    \cup {[k \in 1..MaxRuns |-> Scenario(1, 2, k % 2, (k + 1) % 2)]}

\* The keys of the plan dictionary run_sim reads (the nesting under
\* "PORTFOLIO" and "RETIREMENT" is flattened).
PlanKeys ==
    {"CURRENT AGE", "RETIREMENT AGE", "DEATH AGE", "CURRENT",
     "EMERGENCY SAVINGS", "MONTHLY DEPOSIT", "ANNUAL SPEND",
     "SOCIAL SECURITY", "ANNUAL DIVIDENDS"}

\* (ANNUAL SPEND, SOCIAL SECURITY, ANNUAL DIVIDENDS): a net withdrawal of 3
\* and a net deposit of 2.
CashFlows == {<<6, 2, 1>>, <<2, 3, 1>>}

Plan(ret, death, emergency, cf) ==
    [k \in PlanKeys |->
        CASE k = "CURRENT AGE" -> 64
          [] k = "RETIREMENT AGE" -> ret
          [] k = "DEATH AGE" -> death
          [] k = "CURRENT" -> 10
          [] k = "EMERGENCY SAVINGS" -> emergency
          [] k = "MONTHLY DEPOSIT" -> 1
          [] k = "ANNUAL SPEND" -> cf[1]
          [] k = "SOCIAL SECURITY" -> cf[2]
          [] k = "ANNUAL DIVIDENDS" -> cf[3]]

FullPlans ==
    {Plan(ret, death, e, cf) :
        ret \in 64..66, death \in 63..(64 + MaxYears),
        e \in 0..MaxSkips, cf \in CashFlows}

\* A plan dictionary with one key absent.
Without(p, key) == [k \in (DOMAIN p) \ {key} |-> p[k]]

Plans ==
    FullPlans
    \cup {Without(Plan(65, 66, 1, <<6, 2, 1>>), key) :
            key \in {"DEATH AGE", "EMERGENCY SAVINGS", "MONTHLY DEPOSIT",
                     "ANNUAL SPEND"}}

\* ------------------------------------------------------------------- state

VARIABLES
    plan,            \* main: the loaded plan dictionary
    scenarios,       \* main: the scenario list
    n_sims,          \* the trial count main passes to every run_sim call
    run,             \* main: index of the scenario being run
    pc,              \* position in main / run_sim
    scen,            \* run_sim: its scenario argument
    years,           \* run_sim: death_age - curr_age
    portfolios,      \* run_sim: the balances, one per trial
    skips,           \* run_sim: the remaining skip counts, one per trial
    year_idx,        \* run_sim: the loop variable (0 before the first year)
    market_returns,  \* run_sim: this year's draws
    cash_flow,       \* run_sim: this year's contribution or net_withdrawal
    should_withdraw, \* run_sim: this year's withdrawal mask
    used_skip,       \* run_sim: this year's decrement mask
    result,          \* main: (rate, median) returned by run_sim
    year_start,      \* history: balances at the start of the current year
    skip_start,      \* history: skip counts at the start of the current year
    log,             \* history: the steps of the current run, in order
    declined,        \* history: per trial, retirement years without withdrawal
    declined_funded, \* history: ... of them, with post-market balance > 0
    streak,          \* history: per trial, length of the initial run of
                     \*   down-market retirement years with balance > 0
    trace,           \* history: loop-head states of a deterministic run
    prev             \* history: trace and result of the previous such run

vars ==
    <<plan, scenarios, n_sims, run, pc, scen, years, portfolios, skips,
      year_idx, market_returns, cash_flow, should_withdraw, used_skip,
      result, year_start, skip_start, log, declined, declined_funded,
      streak, trace, prev>>

locals ==
    <<scen, years, portfolios, skips, year_idx, market_returns, cash_flow,
      should_withdraw, used_skip>>

inputs == <<plan, scenarios, n_sims>>

history ==
    <<year_start, skip_start, log, declined, declined_funded, streak, trace,
      prev>>

Trials == 1..n_sims

\* ----------------------------------------------------------------- helpers

\* dict lookup: plan[key] raises KeyError when the key is absent.
Has(key) == key \in DOMAIN plan

\* np.full(n, v)
Full(n, v) == [i \in 1..n |-> v]

\* Mutant of Population: the population outlives the call, and a later call
\* starts from the balances the previous one ended with.
PopulationCarried(n) ==
    IF prev = <<>> THEN Full(n, plan["CURRENT"] * Scale)
    ELSE prev[1][Len(prev[1])][1]

\* portfolios = np.full(n_sims, float(plan["PORTFOLIO"]["CURRENT"]))
Population(n) == Full(n, plan["CURRENT"] * Scale)

\* Mutant of SkipBudgets: the skip counts left by the previous call are
\* reused.
SkipBudgetsCarried(n) ==
    IF prev = <<>> THEN Full(n, plan["EMERGENCY SAVINGS"])
    ELSE prev[1][Len(prev[1])][2]

\* skips = np.full(n_sims, int(plan["RETIREMENT"]["EMERGENCY SAVINGS"]))
SkipBudgets(n) == Full(n, plan["EMERGENCY SAVINGS"])

\* Mutant of LoopHasNext: the range stops one year early, arange(1, years).
LoopHasNextShort == year_idx < years - 1

\* for i, year_idx in enumerate(np.arange(1, years+1)): another year is left.
LoopHasNext == year_idx < years

\* base * ((1 + rate) ** y), for a scaled amount x and rate in tenths.
RECURSIVE Compound(_, _, _)
Compound(x, rate, y) ==
    IF y = 0 THEN x ELSE Compound((x * (10 + rate)) \div 10, rate, y - 1)

\* np.random.normal(avg_return, vol, n_sims): with vol = 0 every draw is
\* avg_return; otherwise any value may be drawn for any trial.
Draws(s, n) ==
    IF s.vol = 0 THEN {Full(n, s.avg_return)} ELSE [1..n -> Returns]

\* portfolios *= (1 + market_returns)
Grow(p, r) == [i \in DOMAIN p |-> (p[i] * (10 + r[i])) \div 10]

\* age = curr_age + year_idx
Age(y) == plan["CURRENT AGE"] + y

\* Mutant of IsAccumulation: the year in which age reaches retirement_age is
\* already a retirement year (age < ret_age).
IsAccumulationStrict(y) == Age(y) < plan["RETIREMENT AGE"]

\* Mutant of IsAccumulation: the loop index is compared with retirement_age
\* (year_idx <= ret_age).
IsAccumulationByIndex(y) == y <= plan["RETIREMENT AGE"]

\* if age <= ret_age: the year is an accumulation year.
IsAccumulation(y) == Age(y) <= plan["RETIREMENT AGE"]

Max(a, b) == IF a >= b THEN a ELSE b

\* Mutant of Contribution: the raise is compounded on enumerate's 0-based i.
ContributionFromZero(y) ==
    Compound(plan["MONTHLY DEPOSIT"] * 12 * Scale, scen.raise_rate, y - 1)

\* contribution = (MONTHLY DEPOSIT * 12) * ((1 + raise_rate) ** year_idx)
Contribution(y) ==
    Compound(plan["MONTHLY DEPOSIT"] * 12 * Scale, scen.raise_rate, y)

\* Mutant of NetWithdrawal: inflation compounds from the first retirement
\* year instead of from the start of the simulation.
NetWithdrawalSinceRetirement(y) ==
    LET k == y - Max(0, plan["RETIREMENT AGE"] - plan["CURRENT AGE"])
    IN Compound(plan["ANNUAL SPEND"] * Scale, scen.inflation, k)
       - Compound(plan["SOCIAL SECURITY"] * Scale, scen.inflation, k)
       - Compound(plan["ANNUAL DIVIDENDS"] * Scale, scen.inflation, k)

\* net_withdrawal = inf_spend - inf_ss - inf_div
NetWithdrawal(y) ==
    Compound(plan["ANNUAL SPEND"] * Scale, scen.inflation, y)
    - Compound(plan["SOCIAL SECURITY"] * Scale, scen.inflation, y)
    - Compound(plan["ANNUAL DIVIDENDS"] * Scale, scen.inflation, y)

\* portfolios += contribution
AddContribution(p, c) == [i \in DOMAIN p |-> p[i] + c]

\* Mutant of ShouldWithdraw: the budget test is skips < 0.
ShouldWithdrawStrict(r, s) == [i \in DOMAIN r |-> (r[i] > 0) \/ (s[i] < 0)]

\* Mutant of ShouldWithdraw: a return of exactly 0 counts as an up market.
ShouldWithdrawAtZero(r, s) ==
    [i \in DOMAIN r |-> (r[i] >= 0) \/ (s[i] <= 0)]

\* Mutant of ShouldWithdraw: the two tests are joined by & instead of |.
ShouldWithdrawBoth(r, s) == [i \in DOMAIN r |-> (r[i] > 0) /\ (s[i] <= 0)]

\* should_withdraw = (market_returns > 0) | (skips <= 0)
ShouldWithdraw(r, s) == [i \in DOMAIN r |-> (r[i] > 0) \/ (s[i] <= 0)]

\* Mutant of Withdraw: the net withdrawal is added instead of subtracted.
WithdrawAdds(p, mask, net) ==
    [i \in DOMAIN p |-> IF mask[i] THEN p[i] + net ELSE p[i]]

\* Mutant of Withdraw: the first trial's flag is applied to every trial.
WithdrawBroadcast(p, mask, net) ==
    [i \in DOMAIN p |-> IF mask[1] THEN p[i] - net ELSE p[i]]

\* portfolios[should_withdraw] -= net_withdrawal
Withdraw(p, mask, net) ==
    [i \in DOMAIN p |-> IF mask[i] THEN p[i] - net ELSE p[i]]

\* Mutant of UsedSkip: every skipped withdrawal is taken off the budget,
\* whatever the balance.
UsedSkipAlways(mask, p) == [i \in DOMAIN p |-> ~mask[i]]

\* used_skip = (~should_withdraw) & (portfolios > 0)
UsedSkip(mask, p) == [i \in DOMAIN p |-> (~mask[i]) /\ (p[i] > 0)]

\* Mutant of Decrement: a used skip is not taken off the budget.
DecrementMissing(s, used) == s

\* skips[used_skip] -= 1
Decrement(s, used) == [i \in DOMAIN s |-> IF used[i] THEN s[i] - 1 ELSE s[i]]

\* Mutant of Floor: the floor is left out.
FloorMissing(p) == p

\* portfolios = np.maximum(portfolios, 0)
Floor(p) == [i \in DOMAIN p |-> Max(p[i], 0)]

\* np.sum(mask)
RECURSIVE SumMask(_, _)
SumMask(mask, k) ==
    IF k = 0 THEN 0 ELSE SumMask(mask, k - 1) + (IF mask[k] THEN 1 ELSE 0)

\* Mutant of Positive: a zero balance counts as a success.
PositiveOrZero(p) == [i \in DOMAIN p |-> p[i] >= 0]

\* portfolios > 0
Positive(p) == [i \in DOMAIN p |-> p[i] > 0]

\* success_rate = np.sum(portfolios > 0) / n_sims * 100, kept as the exact
\* fraction <<numerator, denominator>>.
SuccessRate(p, n) == <<SumMask(Positive(p), Len(p)) * 100, n>>

\* Insertion of x into the sorted sequence s.
RECURSIVE Insert(_, _)
Insert(s, x) ==
    IF s = <<>> THEN <<x>>
    ELSE IF x <= Head(s) THEN <<x>> \o s
    ELSE <<Head(s)>> \o Insert(Tail(s), x)

RECURSIVE SortPrefix(_, _)
SortPrefix(p, k) ==
    IF k = 0 THEN <<>> ELSE Insert(SortPrefix(p, k - 1), p[k])

\* Mutant of Sorted: the population is left in trial order.
SortedMissing(p) == p

\* The population in ascending order, as np.median orders it.
Sorted(p) == SortPrefix(p, Len(p))

\* Mutant of Middle: the smallest value instead of the middle one.
MiddleMin(s) == s[1]

\* The middle value of an ordered sequence, or the mean of the two middle
\* values when its length is even.
Middle(s) ==
    IF Len(s) % 2 = 1 THEN s[(Len(s) + 1) \div 2]
    ELSE (s[Len(s) \div 2] + s[Len(s) \div 2 + 1]) \div 2

\* median_final = np.median(portfolios)
Median(p) == Middle(Sorted(p))

\* ------------------------------------------------------------------ Init

NoLocals ==
    /\ scen = <<>>
    /\ years = 0
    /\ portfolios = <<>>
    /\ skips = <<>>
    /\ year_idx = 0
    /\ market_returns = <<>>
    /\ cash_flow = 0
    /\ should_withdraw = <<>>
    /\ used_skip = <<>>

NoHistory ==
    /\ year_start = <<>>
    /\ skip_start = <<>>
    /\ log = <<>>
    /\ declined = <<>>
    /\ declined_funded = <<>>
    /\ streak = <<>>
    /\ trace = <<>>

\* main, lines 74-86: the plan is loaded, the scenario list is built, no
\* run_sim call has been made.
Init ==
    /\ plan \in Plans
    /\ scenarios \in ScenarioLists
    /\ n_sims \in 1..MaxTrials
    /\ "DEATH AGE" \in DOMAIN plan =>
          n_sims * (plan["DEATH AGE"] - plan["CURRENT AGE"]) <= MaxDraws
    /\ run = 1
    /\ pc = "main"
    /\ result = <<>>
    /\ NoLocals
    /\ NoHistory
    /\ prev = <<>>

\* ---------------------------------------------------------------- actions

\* The keys run_sim reads before its loop (lines 28-35).
EntryKeys ==
    {"CURRENT AGE", "RETIREMENT AGE", "DEATH AGE", "CURRENT",
     "EMERGENCY SAVINGS"}

\* The keys the retirement branch reads (lines 50-52).
RetirementKeys == {"ANNUAL SPEND", "SOCIAL SECURITY", "ANNUAL DIVIDENDS"}

\* plan[key] on an absent key: KeyError propagates out of run_sim and main.
Raise ==
    /\ pc' = "KeyError"
    /\ UNCHANGED <<inputs, run, locals, result, history, prev>>

\* main line 88 calls run_sim; run_sim lines 28-35 read the ages and build
\* the population.
Call ==
    /\ pc = "main"
    /\ run <= Len(scenarios)
    /\ IF EntryKeys \subseteq DOMAIN plan
       THEN /\ scen' = scenarios[run]
            /\ years' = plan["DEATH AGE"] - plan["CURRENT AGE"]
            /\ portfolios' = Population(n_sims)
            /\ skips' = SkipBudgets(n_sims)
            /\ year_idx' = 0
            /\ declined' = Full(n_sims, 0)
            /\ declined_funded' = Full(n_sims, 0)
            /\ streak' = Full(n_sims, 0)
            /\ pc' = "loop"
            /\ UNCHANGED <<inputs, run, market_returns, cash_flow,
                           should_withdraw, used_skip, result, year_start,
                           skip_start, log, trace, prev>>
       ELSE Raise

\* Lines 37-42: the loop takes its next year, draws the returns and applies
\* them.
MarketStep ==
    /\ pc = "loop"
    /\ LoopHasNext
    /\ \E r \in Draws(scen, n_sims) :
        /\ market_returns' = r
        /\ portfolios' = Grow(portfolios, r)
    /\ year_idx' = year_idx + 1
    /\ year_start' = portfolios
    /\ skip_start' = skips
    /\ log' = Append(log, <<Age(year_idx + 1), "market">>)
    /\ trace' = IF scen.vol = 0 THEN Append(trace, <<portfolios, skips>>)
                ELSE trace
    /\ pc' = "phase"
    /\ UNCHANGED <<inputs, run, scen, years, skips, cash_flow,
                   should_withdraw, used_skip, result, declined,
                   declined_funded, streak, prev>>

\* Lines 44-47: the accumulation branch.
Accumulation ==
    /\ pc = "phase"
    /\ IsAccumulation(year_idx)
    /\ IF Has("MONTHLY DEPOSIT")
       THEN /\ cash_flow' = Contribution(year_idx)
            /\ portfolios' = AddContribution(portfolios, cash_flow')
            /\ log' = Append(log, <<Age(year_idx), "accumulation">>)
            /\ pc' = "clamp"
            /\ UNCHANGED <<inputs, run, scen, years, skips, year_idx,
                           market_returns, should_withdraw, used_skip,
                           result, year_start, skip_start, declined,
                           declined_funded, streak, trace, prev>>
       ELSE Raise

\* History of the retirement branch: the trials that did not withdraw, and
\* the initial run of down-market years met with a positive balance.
Funded(i) == portfolios[i] > 0

DownFunded(i) == market_returns[i] <= 0 /\ Funded(i)

RetirementYear(y) == y - Max(0, plan["RETIREMENT AGE"] - plan["CURRENT AGE"])

\* Lines 48-62: the retirement branch.
Retirement ==
    /\ pc = "phase"
    /\ ~IsAccumulation(year_idx)
    /\ IF RetirementKeys \subseteq DOMAIN plan
       THEN /\ cash_flow' = NetWithdrawal(year_idx)
            /\ should_withdraw' = ShouldWithdraw(market_returns, skips)
            /\ portfolios' = Withdraw(portfolios, should_withdraw', cash_flow')
            /\ used_skip' = UsedSkip(should_withdraw', portfolios')
            /\ skips' = Decrement(skips, used_skip')
            /\ log' = Append(log, <<Age(year_idx), "retirement">>)
            /\ declined' =
                 [i \in Trials |->
                    declined[i] + (IF should_withdraw'[i] THEN 0 ELSE 1)]
            /\ declined_funded' =
                 [i \in Trials |->
                    declined_funded[i]
                    + (IF ~should_withdraw'[i] /\ Funded(i) THEN 1 ELSE 0)]
            /\ streak' =
                 [i \in Trials |->
                    IF streak[i] = RetirementYear(year_idx) - 1 /\ DownFunded(i)
                    THEN streak[i] + 1 ELSE streak[i]]
            /\ pc' = "clamp"
            /\ UNCHANGED <<inputs, run, scen, years, year_idx,
                           market_returns, result, year_start, skip_start,
                           trace, prev>>
       ELSE Raise

\* Line 65: the floor at 0.
Clamp ==
    /\ pc = "clamp"
    /\ portfolios' = Floor(portfolios)
    /\ log' = Append(log, <<Age(year_idx), "clamp">>)
    /\ pc' = "loop"
    /\ UNCHANGED <<inputs, run, scen, years, skips, year_idx, market_returns,
                   cash_flow, should_withdraw, used_skip, result, year_start,
                   skip_start, declined, declined_funded, streak, trace,
                   prev>>

\* Lines 67-70: the loop is over; the population is reduced and returned.
Reduce ==
    /\ pc = "loop"
    /\ ~LoopHasNext
    /\ result' = <<SuccessRate(portfolios, n_sims), Median(portfolios)>>
    /\ trace' = IF scen.vol = 0 THEN Append(trace, <<portfolios, skips>>)
                ELSE trace
    /\ pc' = "print"
    /\ UNCHANGED <<inputs, run, locals, year_start, skip_start, log, declined,
                   declined_funded, streak, prev>>

\* Lines 87-89: main prints the row and goes on to the next scenario; the
\* population of the finished call is gone.
PrintRow ==
    /\ pc = "print"
    /\ run' = run + 1
    /\ pc' = "main"
    /\ result' = <<>>
    /\ prev' = IF scen.vol = 0 THEN <<trace, result>> ELSE prev
    /\ scen' = <<>>
    /\ years' = 0
    /\ portfolios' = <<>>
    /\ skips' = <<>>
    /\ year_idx' = 0
    /\ market_returns' = <<>>
    /\ cash_flow' = 0
    /\ should_withdraw' = <<>>
    /\ used_skip' = <<>>
    /\ year_start' = <<>>
    /\ skip_start' = <<>>
    /\ log' = <<>>
    /\ declined' = <<>>
    /\ declined_funded' = <<>>
    /\ streak' = <<>>
    /\ trace' = <<>>
    /\ UNCHANGED inputs

Next ==
    \/ Call
    \/ MarketStep
    \/ Accumulation
    \/ Retirement
    \/ Clamp
    \/ Reduce
    \/ PrintRow

Spec == Init /\ [][Next]_vars

\* The output reduction on its own: run_sim at the exit of its loop with any
\* final population of up to MaxPopulation non-negative balances, then lines
\* 67-70 and the return to main.  The history variables are not read here.
FinalBalances == {0, Scale, 2 * Scale, 3 * Scale}

InitReduce ==
    /\ plan = Plan(65, 67, 0, <<6, 2, 1>>)
    /\ scenarios = [k \in 1..MaxRuns |-> Scenario(1, 2, 0, 0)]
    /\ n_sims \in 1..MaxPopulation
    /\ run = 1
    /\ pc = "loop"
    /\ scen = scenarios[1]
    /\ years = plan["DEATH AGE"] - plan["CURRENT AGE"]
    /\ year_idx = years
    /\ portfolios \in [1..n_sims -> FinalBalances]
    /\ skips = SkipBudgets(n_sims)
    /\ market_returns = Full(n_sims, 0)
    /\ cash_flow = NetWithdrawal(year_idx)
    /\ should_withdraw = Full(n_sims, TRUE)
    /\ used_skip = Full(n_sims, FALSE)
    /\ result = <<>>
    /\ year_start = portfolios
    /\ skip_start = skips
    /\ log = <<>>
    /\ declined = Full(n_sims, 0)
    /\ declined_funded = Full(n_sims, 0)
    /\ streak = Full(n_sims, 0)
    /\ trace = <<>>
    /\ prev = <<>>

NextReduce ==
    \/ Reduce
    \/ PrintRow

SpecReduce == InitReduce /\ [][NextReduce]_vars

\* Every division of the model is exact.
ExactArithmetic ==
    /\ pc = "phase" =>
         \A i \in Trials : (year_start[i] * (10 + market_returns[i])) % 10 = 0
    /\ pc = "print" => \A i \in Trials : portfolios[i] % 2 = 0

\* ------------------------------------------------------------------ claims

\* A run_sim call is in progress or has just returned.
InRun == pc \in {"loop", "phase", "clamp", "print"}

\* C1: run_sim returns success_rate = 100 * (number of trials whose final
\* balance is strictly positive) / N, and 0 <= success_rate <= 100.
C1_SuccessRate ==
    pc = "print" =>
        LET rate == result[1]
            winners == {i \in Trials : portfolios[i] > 0}
        IN /\ rate[2] = n_sims
           /\ rate[1] = 100 * Cardinality(winners)
           /\ 0 <= rate[1]
           /\ rate[1] <= 100 * rate[2]

\* A run of two trials returned with one trial depleted and one not: 50%.
C1_Witness ==
    /\ pc = "print"
    /\ n_sims = 2
    /\ year_idx = 3
    /\ portfolios[1] = 0
    /\ portfolios[2] > 0
    /\ result[1] = <<100, 2>>

\* C2: after every year's floor step every balance is >= 0, whatever the
\* returns and the sign of the cash flow; every market step starts from
\* non-negative balances and the returned median is >= 0.
C2_FloorNonNegative ==
    /\ pc \in {"loop", "print"} => \A i \in Trials : portfolios[i] >= 0
    /\ pc \in {"phase", "clamp"} => \A i \in Trials : year_start[i] >= 0
    /\ pc = "print" => result[2] >= 0

\* A trial whose balance a return below -1 made negative is at 0 after the
\* floor, at the head of the next year.
C2_Witness ==
    /\ pc = "loop"
    /\ year_idx >= 1
    /\ \E i \in Trials :
        /\ market_returns[i] < -10
        /\ year_start[i] > 0
        /\ portfolios[i] = 0

\* A step inside a run leaves every skip count as it was or lower.
SkipsDoNotIncrease ==
    pc \in {"loop", "phase", "clamp"} =>
        \A i \in DOMAIN skips : skips'[i] <= skips[i]

\* C3: every skip count is never negative and never increases from one step
\* of a run to the next.
C3_SkipsMonotone ==
    /\ [](\A i \in DOMAIN skips : skips[i] >= 0)
    /\ [][SkipsDoNotIncrease]_vars

\* A trial has used its whole budget of two skips.
C3_Witness ==
    /\ InRun
    /\ plan["EMERGENCY SAVINGS"] = 2
    /\ \E i \in Trials : skips[i] = 0

\* PlanConfig's invariant: every field present, current_age < retirement_age
\* <= death_age.
PlanValid ==
    /\ PlanKeys \subseteq DOMAIN plan
    /\ plan["CURRENT AGE"] < plan["RETIREMENT AGE"]
    /\ plan["RETIREMENT AGE"] <= plan["DEATH AGE"]

PlanAccepted ==
    /\ PlanKeys \subseteq DOMAIN plan
    /\ plan["DEATH AGE"] > plan["CURRENT AGE"]

\* C5: with a plan whose required fields are missing or whose ages are
\* non-monotonic, run_sim fails before any year is simulated and returns no
\* result.
C5_InvalidPlanRejected ==
    ~PlanAccepted => (log = <<>> /\ pc # "print")

\* C6: with every draw replaced by one fixed value (vol = 0), all trials of a
\* run have the same balance and skip count at every step, and a second run
\* with the same trial count, plan and scenario goes through the same
\* per-year states and returns the same (success_rate, median).
C6_Deterministic ==
    (InRun /\ scen.vol = 0) =>
        /\ \A i, j \in Trials :
              portfolios[i] = portfolios[j] /\ skips[i] = skips[j]
        /\ prev # <<>> =>
              /\ Len(trace) <= Len(prev[1])
              /\ \A k \in 1..Len(trace) : trace[k] = prev[1][k]
              /\ pc = "print" => <<trace, result>> = prev

\* The second of two three-year runs of two trials on the fixed source has
\* returned, with money left.
C6_Witness ==
    /\ pc = "print"
    /\ scen.vol = 0
    /\ run = 2
    /\ prev # <<>>
    /\ n_sims = 2
    /\ year_idx = 3
    /\ portfolios[1] > 0

\* The reorderings of the trials.
Reorderings ==
    {q \in [Trials -> Trials] : \A a, b \in Trials : q[a] = q[b] => a = b}

Ascending(p) == \A k \in 1..(Len(p) - 1) : p[k] <= p[k + 1]

\* C7: reordering the final balances changes neither success_rate nor
\* median_ending_balance, the median being the middle value of the ordered
\* population (the mean of the two middle values for an even trial count).
C7_ReductionPermutationInvariant ==
    pc = "print" =>
        \A q \in Reorderings :
            LET reordered == [i \in Trials |-> portfolios[q[i]]]
            IN /\ SuccessRate(reordered, n_sims) = result[1]
               /\ Median(reordered) = result[2]
               /\ Ascending(reordered) => result[2] = Middle(reordered)

\* The reduction has run on three distinct balances that are not in order.
C7_Witness ==
    /\ pc = "print"
    /\ n_sims = 3
    /\ portfolios[1] > portfolios[3]
    /\ portfolios[3] > portfolios[2]

\* The balance of trial i after this year's market step, from the balance the
\* year started with.
AfterMarket(i) == (year_start[i] * (10 + market_returns[i])) \div 10

\* monthly_deposit * 12 * (1 + raise_rate)^y, y counted from the start of the
\* simulation.
ExpectedContribution(y) ==
    plan["MONTHLY DEPOSIT"] * 12 * (Scale \div 10^y) * (10 + scen.raise_rate)^y

\* C8: after every accumulation year (age <= retirement_age) every balance is
\* max(0, balance_before * (1 + return) + monthly_deposit * 12 *
\* (1 + raise_rate)^year_index); with return 0, raise_rate 0 and a monthly
\* deposit of 1 (thousand) the balance after the first year is exactly
\* portfolio_current + 12 (thousand).
C8_AccumulationYear ==
    (pc = "loop" /\ year_idx >= 1 /\ Age(year_idx) <= plan["RETIREMENT AGE"]) =>
        \A i \in Trials :
            /\ portfolios[i] =
                 Max(0, AfterMarket(i) + ExpectedContribution(year_idx))
            /\ (/\ year_idx = 1
                /\ market_returns[i] = 0
                /\ scen.raise_rate = 0
                /\ plan["MONTHLY DEPOSIT"] = 1) =>
                    portfolios[i] = (plan["CURRENT"] + 12) * Scale

\* The second accumulation year has ended, under a raise rate of 0.1, for a
\* trial whose return this year was positive.
C8_Witness ==
    /\ pc = "loop"
    /\ year_idx = 2
    /\ Age(year_idx) <= plan["RETIREMENT AGE"]
    /\ scen.raise_rate = 1
    /\ \E i \in Trials : market_returns[i] = 1 /\ portfolios[i] > 0

\* C9: a trial that enters retirement with skip count s > 0 and meets s
\* consecutive down-market retirement years (return <= 0) with its balance
\* strictly positive has no withdrawal subtracted in any of them and its skip
\* count falls by one per year to 0; in the next retirement year it withdraws
\* whatever the return.
C9_SkipRun ==
    (pc = "clamp" /\ Age(year_idx) > plan["RETIREMENT AGE"]
        /\ plan["EMERGENCY SAVINGS"] > 0) =>
        LET s == plan["EMERGENCY SAVINGS"]
            m == RetirementYear(year_idx)
        IN \A i \in Trials :
            /\ (streak[i] = m /\ m <= s) =>
                  /\ ~should_withdraw[i]
                  /\ portfolios[i] = AfterMarket(i)
                  /\ skips[i] = s - m
            /\ (streak[i] >= s /\ m = s + 1) =>
                  /\ should_withdraw[i]
                  /\ portfolios[i] = AfterMarket(i) - cash_flow
                  /\ skips[i] = 0

\* A trial with a budget of 2 skipped in its first two retirement years, both
\* down and funded, and withdraws in the third, a down year again.
C9_Witness ==
    /\ pc = "clamp"
    /\ plan["EMERGENCY SAVINGS"] = 2
    /\ RetirementYear(year_idx) = 3
    /\ \E i \in Trials :
        /\ streak[i] >= 2
        /\ market_returns[i] = -1
        /\ should_withdraw[i]
        /\ skips[i] = 0

\* The steps of a whole run over ages current_age+1 .. death_age: market
\* step, phase cash flow, clamp, for each age in increasing order.
ExpectedStep(k) ==
    LET age == Age((k + 2) \div 3)
    IN <<age,
         CASE k % 3 = 1 -> "market"
           [] k % 3 = 2 -> IF age <= plan["RETIREMENT AGE"]
                           THEN "accumulation" ELSE "retirement"
           [] OTHER -> "clamp">>

ExpectedLength == 3 * (plan["DEATH AGE"] - plan["CURRENT AGE"])

\* Where the log stands at each position of the loop.
LogInStep ==
    /\ Len(log) <= ExpectedLength
    /\ \A k \in 1..Len(log) : log[k] = ExpectedStep(k)
    /\ pc = "loop" => Len(log) = 3 * year_idx
    /\ pc = "phase" => Len(log) = 3 * year_idx - 2
    /\ pc = "clamp" => Len(log) = 3 * year_idx - 1
    /\ pc = "print" => Len(log) = ExpectedLength

\* Every step inside the loop adds one entry to the log.
LogGrows ==
    (PlanAccepted /\ pc \in {"loop", "phase", "clamp"}) =>
        (Len(log') = Len(log) + 1 \/ (pc' = "print" /\ log' = log))

\* C10: for every valid plan (death_age > current_age) run_sim returns after
\* exactly death_age - current_age yearly steps, taken in increasing age order
\* current_age+1, ..., death_age, each being market step, then phase cash
\* flow, then clamp; no step is retried, skipped or repeated.
C10_YearlySteps ==
    /\ []((PlanAccepted /\ InRun) => LogInStep)
    /\ [][LogGrows]_vars

\* A run over three years has returned after its nine steps.
C10_Witness ==
    /\ pc = "print"
    /\ PlanAccepted
    /\ years = 3
    /\ Len(log) = 9

\* The retirement branch has run for the current year.
RetirementDone == pc = "clamp" /\ Age(year_idx) > plan["RETIREMENT AGE"]

\* A retirement year (age > retirement_age) has been completed, floor
\* included.
RetirementYearEnded ==
    pc = "loop" /\ year_idx >= 1 /\ Age(year_idx) > plan["RETIREMENT AGE"]

\* Trial i met a down market (return <= 0) with skip budget left this year.
Skipping(i) == market_returns[i] <= 0 /\ skip_start[i] > 0

\* C11: in every retirement year a trial has net_withdrawal subtracted from
\* its post-market balance if and only if it is not the case that its return
\* is <= 0 and its skip count is > 0; a return of exactly 0 is a down market,
\* and a trial with skip count 0 in a down year ends the year at
\* max(0, post-return balance - net_withdrawal).
C11_WithdrawUnlessSkipping ==
    /\ RetirementDone =>
         \A i \in Trials :
            /\ should_withdraw[i] <=> ~Skipping(i)
            /\ portfolios[i] =
                 IF Skipping(i) THEN AfterMarket(i)
                 ELSE AfterMarket(i) - cash_flow
    /\ RetirementYearEnded =>
         \A i \in Trials :
            (market_returns[i] <= 0 /\ skip_start[i] = 0) =>
                portfolios[i] = Max(0, AfterMarket(i) - cash_flow)

\* A retirement year has ended in which one trial with budget left skipped on
\* a return of exactly 0 and the other, with no budget, withdrew on a down
\* market.
C11_Witness ==
    /\ RetirementYearEnded
    /\ n_sims = 2
    /\ cash_flow > 0
    /\ \E i, j \in Trials :
        /\ market_returns[i] = 0
        /\ skip_start[i] > 0
        /\ portfolios[i] = AfterMarket(i)
        /\ market_returns[j] = -1
        /\ skip_start[j] = 0
        /\ portfolios[j] = AfterMarket(j) - cash_flow

ExpectedNet(y) ==
    (plan["ANNUAL SPEND"] - plan["SOCIAL SECURITY"] - plan["ANNUAL DIVIDENDS"])
    * (Scale \div 10^y) * (10 + scen.inflation)^y

\* The per-year transition rule of section 4.1 applied to one trial on its
\* own: from balance b and skip count k at the start of year y, with the
\* trial's own return r, to the <<balance, skip count>> at the end of it.
TrialYear(b, k, r, y) ==
    LET grown == (b * (10 + r)) \div 10
        skip == r <= 0 /\ k > 0
    IN IF Age(y) <= plan["RETIREMENT AGE"]
       THEN <<Max(0, grown + ExpectedContribution(y)), k>>
       ELSE <<Max(0, IF skip THEN grown ELSE grown - ExpectedNet(y)),
              IF skip /\ grown > 0 THEN k - 1 ELSE k>>

\* C13: each trial's (balance, skip count) trajectory depends only on the
\* plan, the scenario and that trial's own return draws: after every year
\* the array-wide update has left every trial where the per-year rule applied
\* to that trial alone leaves it, whatever the other trials drew and however
\* many there are.
C13_TrialsIndependent ==
    (pc = "loop" /\ year_idx >= 1) =>
        \A i \in Trials :
            <<portfolios[i], skips[i]>> =
                TrialYear(year_start[i], skip_start[i], market_returns[i],
                          year_idx)

\* Two trials that started a retirement year alike drew different returns:
\* one withdrew, the other skipped and paid a skip.
C13_Witness ==
    /\ RetirementYearEnded
    /\ n_sims = 2
    /\ year_start[1] = year_start[2]
    /\ skip_start[1] = skip_start[2]
    /\ market_returns[1] > 0
    /\ market_returns[2] <= 0
    /\ skips[2] = skips[1] - 1
    /\ portfolios[1] # portfolios[2]

\* C14: in a retirement year the net withdrawal is
\* (annual_spend - social_security - annual_dividends) * (1 + inflation)^y
\* with y the running year index of the whole simulation; it is one number
\* for all trials, every withdrawing trial's balance moves by exactly that
\* amount, and when it is negative the withdrawal is a deposit: the balance
\* of a withdrawing trial ends above its post-market value.
C14_NetWithdrawal ==
    RetirementDone =>
        /\ cash_flow = ExpectedNet(year_idx)
        /\ \A i \in Trials :
              should_withdraw[i] =>
                  /\ portfolios[i] = AfterMarket(i) - ExpectedNet(year_idx)
                  /\ ExpectedNet(year_idx) < 0 =>
                         portfolios[i] > AfterMarket(i)

\* A retirement year that follows an accumulation year, with inflation and
\* income above spending: the withdrawing trial received a deposit.
C14_Witness ==
    /\ RetirementDone
    /\ year_idx >= 2
    /\ Age(1) <= plan["RETIREMENT AGE"]
    /\ scen.inflation = 1
    /\ cash_flow < 0
    /\ \E i \in Trials :
          should_withdraw[i] /\ portfolios[i] > AfterMarket(i)

\* Entry to the year loop of a call: nothing has been simulated yet.
RunStarted == pc = "loop" /\ year_idx = 0

\* C15: every call starts from fresh arrays: n_sims balances, all equal to
\* the plan's current portfolio, and n_sims skip counts, all equal to the
\* plan's emergency savings, whatever an earlier call left behind; both
\* arrays keep length n_sims for the whole call.
C15_FreshArrays ==
    /\ RunStarted =>
          /\ Len(portfolios) = n_sims
          /\ Len(skips) = n_sims
          /\ \A i \in Trials :
                /\ portfolios[i] = plan["CURRENT"] * Scale
                /\ skips[i] = plan["EMERGENCY SAVINGS"]
    /\ InRun => Len(portfolios) = n_sims /\ Len(skips) = n_sims

\* A second call starts after a first one that ended with other balances and
\* with skips spent.
C15_Witness ==
    /\ RunStarted
    /\ run >= 2
    /\ prev # <<>>
    /\ LET last == prev[1][Len(prev[1])]
       IN \E i \in Trials :
             /\ last[1][i] # plan["CURRENT"] * Scale
             /\ last[2][i] < plan["EMERGENCY SAVINGS"]

\* The phase branch, or the whole year, of an accumulation year is done.
AccumulationYearDone ==
    /\ pc \in {"clamp", "loop"}
    /\ year_idx >= 1
    /\ Age(year_idx) <= plan["RETIREMENT AGE"]

\* C16: an accumulation year (age <= retirement_age) leaves every trial's
\* skip count as it was at the start of the year, whatever the return drawn
\* and whatever the balance.
C16_AccumulationKeepsSkips ==
    AccumulationYearDone => \A i \in Trials : skips[i] = skip_start[i]

\* An accumulation year ended in which a trial with skips left and a positive
\* post-market balance met a down market, and another trial lost everything.
C16_Witness ==
    /\ AccumulationYearDone
    /\ pc = "loop"
    /\ \E i \in Trials :
          /\ market_returns[i] <= 0
          /\ skip_start[i] > 0
          /\ AfterMarket(i) > 0
    /\ \E j \in Trials : market_returns[j] = -15 /\ skip_start[j] > 0

\* Trial i entered the retirement year year_idx with the balance 0 that the
\* clamp of the retirement year before had left.
DepletedInRetirement(i) ==
    /\ year_idx >= 2
    /\ Age(year_idx - 1) > plan["RETIREMENT AGE"]
    /\ year_start[i] = 0

NetNonNegative ==
    /\ PlanAccepted
    /\ plan["ANNUAL SPEND"]
         >= plan["SOCIAL SECURITY"] + plan["ANNUAL DIVIDENDS"]

\* C17: when spending is at least social security plus dividends, a trial
\* whose balance is 0 after the clamp of a retirement year has balance 0
\* after the next year too, whatever its return and skip count, hence after
\* every later year; at the end of the run it is not counted in the success
\* rate.
C17_ZeroAbsorbing ==
    /\ (pc = "loop" /\ year_idx >= 2 /\ NetNonNegative) =>
          \A i \in Trials : DepletedInRetirement(i) => portfolios[i] = 0
    /\ (pc = "print" /\ year_idx >= 2 /\ NetNonNegative) =>
          \A i \in Trials :
              DepletedInRetirement(i) =>
                  /\ portfolios[i] = 0
                  /\ result[1][1] <= 100 * (n_sims - 1)
                  /\ result[1][1] =
                       100 * Cardinality({j \in Trials \ {i} :
                                             portfolios[j] > 0})

\* Two depleted trials went through one more retirement year, one in an up
\* market, the other in a down market with skips left: both are still at 0.
C17_Witness ==
    /\ pc = "loop"
    /\ NetNonNegative
    /\ n_sims = 2
    /\ \E i, j \in Trials :
          /\ DepletedInRetirement(i)
          /\ DepletedInRetirement(j)
          /\ market_returns[i] = 1
          /\ market_returns[j] <= 0
          /\ skip_start[j] > 0
          /\ portfolios[i] = 0
          /\ portfolios[j] = 0

\* The years whose phase branch has been taken, in order, with their phase.
PhaseEntries ==
    {k \in 1..Len(log) : log[k][2] \in {"accumulation", "retirement"}}

\* C18: within one run no accumulation year follows a year with
\* age > retirement_age or a retirement year; in each year every trial takes
\* the same branch (all receive the contribution, or none does); and with
\* current_age < retirement_age the first year is an accumulation year.
C18_PhaseMonotone ==
    (PlanAccepted /\ InRun) =>
        /\ \A j, k \in PhaseEntries :
              (j < k /\ (log[j][1] > plan["RETIREMENT AGE"]
                         \/ log[j][2] = "retirement"))
                  => log[k][2] = "retirement"
        /\ \A k \in PhaseEntries :
              log[k][2] = "accumulation"
                  <=> log[k][1] <= plan["RETIREMENT AGE"]
        /\ (pc = "clamp" /\ log[Len(log)][2] = "accumulation") =>
              \A i \in Trials :
                  portfolios[i] =
                      AfterMarket(i) + ExpectedContribution(year_idx)
        /\ (pc = "clamp" /\ log[Len(log)][2] = "retirement") =>
              \A i \in Trials :
                  portfolios[i] =
                      AfterMarket(i)
                      - (IF should_withdraw[i]
                         THEN ExpectedNet(year_idx) ELSE 0)
        /\ (plan["CURRENT AGE"] < plan["RETIREMENT AGE"] /\ Len(log) >= 2) =>
              log[2] = <<plan["CURRENT AGE"] + 1, "accumulation">>

\* The branch of a retirement year that follows accumulation years has been
\* taken for two trials.
C18_Witness ==
    /\ PlanAccepted
    /\ pc = "clamp"
    /\ n_sims = 2
    /\ plan["CURRENT AGE"] < plan["RETIREMENT AGE"]
    /\ log[2][2] = "accumulation"
    /\ log[Len(log)][2] = "retirement"
    /\ should_withdraw[1] # should_withdraw[2]

\* C19: for every final population of non-negative balances, a success rate
\* above 50 implies a median ending balance above 0, and a median ending
\* balance above 0 implies a success rate of at least 50.
C19_RateMedianConsistent ==
    pc = "print" =>
        LET rate == result[1]
            median == result[2]
        IN /\ rate[1] > 50 * rate[2] => median > 0
           /\ median > 0 => rate[1] >= 50 * rate[2]

\* Half of an even population ended at 0: the rate is exactly 50 and the
\* median, the mean of a zero and a positive balance, is above 0.
C19_Witness ==
    /\ pc = "print"
    /\ n_sims = 4
    /\ result[1][1] = 50 * result[1][2]
    /\ result[2] > 0
    /\ \E i \in Trials : portfolios[i] = 0

====
